---- MODULE Spec2Model ----
(***************************************************************************)
(* Model of luigi_pipeline/pipeline.py: a five-stage luigi pipeline        *)
(* (DownloadDataset, ExtractArchive, SplitTables, RemoveColumns, Cleanup,  *)
(* wrapped by Pipeline) over a filesystem, and the section splitter        *)
(* SplitTables._split_file.                                                *)
(*                                                                         *)
(* Text is modelled by token sequences: each of the characters '[', ']',   *)
(* TAB and NEWLINE is a token of its own, and every maximal run of other   *)
(* characters is one word token.  A line is a sequence of tokens, a file   *)
(* is a sequence of lines.                                                 *)
(***************************************************************************)
EXTENDS Integers, Sequences, FiniteSets, TLC

\* ------------------------------------------------------------------ bounds
\* Longest text file the splitter is run on, in lines.
MaxLines == 6

\* ------------------------------------------------------------- text tokens
LB == "["
RB == "]"
TAB == "\t"
NL == "\n"

\* A marker line "[name]\n" and a data line "c1\tc2\n".
Marker(name) == <<LB, name, RB, NL>>
Row2(a, b) == <<a, TAB, b, NL>>

\* The lines a text file is made of: three named markers, a marker with an
\* empty name, two two-cell rows and a blank line.
LineAlphabet ==
  { Marker("A"), Marker("Heading"), Marker("B"), <<LB, RB, NL>>,
    Row2("x", "y"), Row2("1", "2"), <<NL>> }

\* ------------------------------------------------------ str.strip('[]\n')
StripChars == {LB, RB, NL}

RECURSIVE LStrip(_)
LStrip(s) == IF s # <<>> /\ Head(s) \in StripChars THEN LStrip(Tail(s)) ELSE s

RECURSIVE RStrip(_)
RStrip(s) ==
  IF s # <<>> /\ s[Len(s)] \in StripChars
  THEN RStrip(SubSeq(s, 1, Len(s) - 1))
  ELSE s

Strip(line) == RStrip(LStrip(line))

\* line.startswith('[')
StartsWithBracket(line) == line # <<>> /\ Head(line) = LB

\* --------------------------------------------------------- section keys
\* write_key is None until the first marker, then the stripped marker text.
NoKey == [set |-> FALSE, name |-> <<>>]
Key(name) == [set |-> TRUE, name |-> name]

\* Python truth value of write_key: None and '' are false.
\* Variant: only None is false.
TruthyNotNone(key) == key.set
Truthy(key) == key.set /\ key.name # <<>>

HeadingName == <<"Heading">>

\* ------------------------------------------------------------ pd.read_csv
\* Column labels: a name taken from a header row, or a position.
Name(cell) == [kind |-> "name", name |-> cell, pos |-> 0]
Pos(i) == [kind |-> "pos", name |-> <<>>, pos |-> i]

\* The text of a line without its line end.
Chomp(line) ==
  IF line # <<>> /\ line[Len(line)] = NL
  THEN SubSeq(line, 1, Len(line) - 1)
  ELSE line

RECURSIVE SplitTab(_)
SplitTab(s) ==
  IF \E i \in 1..Len(s) : s[i] = TAB
  THEN LET i == CHOOSE k \in 1..Len(s) :
                  s[k] = TAB /\ \A j \in 1..(k - 1) : s[j] # TAB
       IN <<SubSeq(s, 1, i - 1)>> \o SplitTab(SubSeq(s, i + 1, Len(s)))
  ELSE <<s>>

\* The rows of a buffer: blank lines are skipped, the others are cut at TABs.
RECURSIVE Rows(_)
Rows(buf) ==
  IF buf = <<>> THEN <<>>
  ELSE IF Chomp(Head(buf)) = <<>> THEN Rows(Tail(buf))
  ELSE <<SplitTab(Chomp(Head(buf)))>> \o Rows(Tail(buf))

NoTable == [columns |-> <<>>, data |-> <<>>]

\* header = "infer": the first row names the columns; header = "none": the
\* columns are positional and every row is data.  A buffer without rows
\* raises EmptyDataError.
ReadCsv(buf, header) ==
  LET rows == Rows(buf) IN
  IF rows = <<>> THEN [ok |-> FALSE, df |-> NoTable]
  ELSE IF header = "infer"
  THEN [ok |-> TRUE,
        df |-> [columns |-> [i \in 1..Len(rows[1]) |-> Name(rows[1][i])],
                data |-> Tail(rows)]]
  ELSE [ok |-> TRUE,
        df |-> [columns |-> [i \in 1..Len(rows[1]) |-> Pos(i - 1)],
                data |-> rows]]

\* ------------------------------------------------------- DataFrame.to_csv
Digits == <<"0", "1", "2", "3", "4", "5", "6", "7", "8", "9">>
LabelText(c) == IF c.kind = "name" THEN c.name ELSE <<Digits[c.pos + 1]>>

RECURSIVE JoinTab(_)
JoinTab(cells) ==
  IF cells = <<>> THEN <<>>
  ELSE IF Len(cells) = 1 THEN cells[1]
  ELSE cells[1] \o <<TAB>> \o JoinTab(Tail(cells))

\* sep='\t', index=False: the label line, then one line per data row.
ToCsv(df) ==
  <<JoinTab([i \in 1..Len(df.columns) |-> LabelText(df.columns[i])]) \o <<NL>>>>
  \o [i \in 1..Len(df.data) |-> JoinTab(df.data[i]) \o <<NL>>]

\* ------------------------------------------------ SplitTables._split_file
EmptyDfs == [k \in {} |-> NoTable]

\* Variant: a key already stored keeps its table.
PutKeepFirst(f, k, v) == [x \in (DOMAIN f) \cup {k} |-> IF x \in DOMAIN f THEN f[x] ELSE v]
Put(f, k, v) == [x \in (DOMAIN f) \cup {k} |-> IF x = k THEN v ELSE f[x]]

\* header = None if write_key == 'Heading' else 'infer'; variant: no
\* special case.
HeaderAlwaysInfer(key) == "infer"
HeaderFor(key) == IF key.name = HeadingName THEN "none" ELSE "infer"

\* The end-of-file call passes no header argument: the default, 'infer';
\* variant: the same rule as mid-file.
EofHeaderAsMidFile(key) == HeaderFor(key)
EofHeader(key) == "infer"

\* The locals of _split_file before the first line is read.
ScanStart == [dfs |-> EmptyDfs, write_key |-> NoKey, fio |-> <<>>, ok |-> TRUE]

\* Whether the loop body stores a table for this line: a marker line read
\* while write_key is true.
ClosesSection(st, line) == StartsWithBracket(line) /\ Truthy(st.write_key)

\* One iteration of "for line in f"; ok = FALSE when read_csv raised.
ScanLine(st, line) ==
  IF StartsWithBracket(line)
  THEN LET r == ReadCsv(st.fio, HeaderFor(st.write_key)) IN
       IF ClosesSection(st, line) /\ ~r.ok
       THEN [st EXCEPT !.ok = FALSE]
       ELSE [dfs |-> IF ClosesSection(st, line)
                     THEN Put(st.dfs, st.write_key, r.df)
                     ELSE st.dfs,
             write_key |-> Key(Strip(line)),
             fio |-> <<>>,
             ok |-> TRUE]
  ELSE IF Truthy(st.write_key)
  THEN [st EXCEPT !.fio = Append(st.fio, line)]
  ELSE st

\* After the loop: dfs[write_key] = pd.read_csv(fio, sep='\t')
Finalize(st) ==
  LET r == ReadCsv(st.fio, EofHeader(st.write_key)) IN
  IF r.ok
  THEN [st EXCEPT !.dfs = Put(st.dfs, st.write_key, r.df)]
  ELSE [st EXCEPT !.ok = FALSE]

\* File names are <<stem, extension>>; f"{key}.tsv" formats None as "None".
KeyText(key) == IF key.set THEN key.name ELSE <<"None">>
TsvName(key) == <<KeyText(key), "tsv">>

\* for key, df in dfs.items(): df.to_csv(<output>/<key>.tsv)
SaveTables(out, dfs) ==
  LET names == {TsvName(k) : k \in DOMAIN dfs} IN
  [n \in (DOMAIN out) \cup names |->
     IF n \in names
     THEN ToCsv(dfs[CHOOSE k \in DOMAIN dfs : TsvName(k) = n])
     ELSE out[n]]

RECURSIVE ScanAll(_, _)
ScanAll(st, lines) ==
  IF lines = <<>> \/ ~st.ok THEN st
  ELSE ScanAll(ScanLine(st, Head(lines)), Tail(lines))

\* The whole of _split_file on one file, writing into directory content out.
SplitFile(content, out) ==
  LET scanned == ScanAll(ScanStart, content)
      st == IF scanned.ok THEN Finalize(scanned) ELSE scanned
  IN IF st.ok
     THEN [ok |-> TRUE, out |-> SaveTables(out, st.dfs)]
     ELSE [ok |-> FALSE, out |-> out]

\* ============================================================ filesystem
\* Under DATA_DIR, for the dataset identifier D of the run: the file
\* D_RAW.tar and the directories D_extracted, D_split and D_final.
Dirs == {"extracted", "split", "final"}

EmptyDir == [n \in {} |-> <<>>]

\* fs.raw: whether D_RAW.tar exists, and the files packed in it;
\* fs.dirs: the directories that exist; fs.files[d]: name -> content.
NoRaw == [exists |-> FALSE, tar |-> EmptyDir]
RawOf(archive) == [exists |-> TRUE, tar |-> archive]

File(stem, ext) == <<<<stem>>, ext>>

\* filename.endswith(".txt"); variant: the extension mistaken for ".tsv".
EndsWithTsv(name) == name[2] = "tsv"
EndsWithTxt(name) == name[2] = "txt"

TxtNames(dir) == {n \in DOMAIN dir : EndsWithTxt(n)}

\* ----------------------------------------------------- program constants
COLUMNS_TO_DROP ==
  << "Definition", "Ontology_Component", "Ontology_Process",
     "Ontology_Function", "Synonyms", "Obsolete_Probe_Id", "Probe_Sequence" >>

ProbesTsv == File("Probes", "tsv")
ProbesTrimmedTsv == File("Probes_trimmed", "tsv")
MarkerFile == File("cleanup_complete", "txt")
MarkerText == << <<"Cleanup completed successfully">> >>

\* ------------------------------------------------- the remote datasets
\* A line of TAB-separated word cells.
RECURSIVE RowOf(_)
RowOf(cells) ==
  IF Len(cells) = 1 THEN <<cells[1], NL>>
  ELSE <<cells[1], TAB>> \o RowOf(Tail(cells))

FullProbes ==
  << Marker("Heading"), Row2("x", "y"),
     Marker("Probes"),
     RowOf(<<"Probe_Id">> \o COLUMNS_TO_DROP \o <<"GeneSymbol">>),
     RowOf(<<"p1", "d", "oc", "op", "of", "s", "o", "seq", "g1">>) >>

PartialProbes ==
  << Marker("Probes"),
     RowOf(<<"Probe_Id", "Definition", "Ontology_Component", "GeneSymbol",
             "Probe_Sequence">>),
     RowOf(<<"p1", "d", "oc", "g1", "seq">>) >>

Readme == << Row2("x", "y") >>

\* What the download can fetch: a well-formed dataset, one whose Probes
\* section lacks columns, and one that also holds a text file without
\* section markers.
ArchGood == (File("data", "txt") :> FullProbes) @@ (File("family", "xml") :> <<>>)
ArchPartial == (File("data", "txt") :> PartialProbes)
ArchReadme == (File("data", "txt") :> FullProbes) @@ (File("readme", "txt") :> Readme)
Archives == {ArchGood, ArchPartial, ArchReadme}

\* ================================================================ tasks
Stages == <<"DownloadDataset", "ExtractArchive", "SplitTables", "RemoveColumns", "Cleanup">>
Tasks == {Stages[i] : i \in 1..Len(Stages)} \cup {"Pipeline"}

\* Position in the chain, the wrapper last.
Index(t) == IF t = "Pipeline" THEN Len(Stages) + 1 ELSE CHOOSE i \in 1..Len(Stages) : Stages[i] = t

\* requires(): the one upstream task, "none" for DownloadDataset.
\* Variants: RemoveColumns requiring ExtractArchive; Pipeline requiring
\* RemoveColumns.
RequiresSkipSplit(t) ==
  CASE t = "ExtractArchive" -> "DownloadDataset"
    [] t = "SplitTables" -> "ExtractArchive"
    [] t = "RemoveColumns" -> "ExtractArchive"
    [] t = "Cleanup" -> "RemoveColumns"
    [] t = "Pipeline" -> "Cleanup"
    [] OTHER -> "none"
RequiresNoCleanup(t) ==
  CASE t = "ExtractArchive" -> "DownloadDataset"
    [] t = "SplitTables" -> "ExtractArchive"
    [] t = "RemoveColumns" -> "SplitTables"
    [] t = "Cleanup" -> "RemoveColumns"
    [] t = "Pipeline" -> "RemoveColumns"
    [] OTHER -> "none"
Requires(t) ==
  CASE t = "ExtractArchive" -> "DownloadDataset"
    [] t = "SplitTables" -> "ExtractArchive"
    [] t = "RemoveColumns" -> "SplitTables"
    [] t = "Cleanup" -> "RemoveColumns"
    [] t = "Pipeline" -> "Cleanup"
    [] OTHER -> "none"

\* output(): a target is a directory, or a file of a directory; "data" is
\* DATA_DIR itself, whose only file in the model is D_RAW.tar.
NoName == <<<<>>, "">>
DirTarget(d) == [dir |-> d, name |-> NoName]
FileTarget(d, n) == [dir |-> d, name |-> n]

\* Variant: SplitTables declaring the Probes table, not the directory.
OutputProbesFile(t) ==
  CASE t = "DownloadDataset" -> FileTarget("data", File("RAW", "tar"))
    [] t = "ExtractArchive" -> DirTarget("extracted")
    [] t = "SplitTables" -> FileTarget("split", ProbesTsv)
    [] t = "RemoveColumns" -> DirTarget("final")
    [] t = "Cleanup" -> FileTarget("final", MarkerFile)
    [] OTHER -> DirTarget("none")
\* Variant: ExtractArchive declaring a file inside the directory.
OutputDoneFile(t) ==
  CASE t = "DownloadDataset" -> FileTarget("data", File("RAW", "tar"))
    [] t = "ExtractArchive" -> FileTarget("extracted", File("done", "flag"))
    [] t = "SplitTables" -> DirTarget("split")
    [] t = "RemoveColumns" -> DirTarget("final")
    [] t = "Cleanup" -> FileTarget("final", MarkerFile)
    [] OTHER -> DirTarget("none")
\* Cleanup.output() joins the marker name to self.input().path, the output
\* of the task Cleanup requires.
RECURSIVE Output(_)
Output(t) ==
  CASE t = "DownloadDataset" -> FileTarget("data", File("RAW", "tar"))
    [] t = "ExtractArchive" -> DirTarget("extracted")
    [] t = "SplitTables" -> DirTarget("split")
    [] t = "RemoveColumns" -> DirTarget("final")
    [] t = "Cleanup" -> FileTarget(Output(Requires(t)).dir, MarkerFile)
    [] OTHER -> DirTarget("none")

\* self.input().path
InputDir(t) == Output(Requires(t)).dir

\* LocalTarget.exists()
Exists(target, f) ==
  IF target.dir = "data" THEN f.raw.exists
  ELSE IF target.name = NoName THEN target.dir \in f.dirs
  ELSE target.dir \in f.dirs /\ target.name \in DOMAIN f.files[target.dir]

\* Pipeline is a WrapperTask: complete when what it requires is complete.
\* Variant: a plain Task without output, which is never complete.
PlainTaskComplete(f) == FALSE
WrapperComplete(f) == Exists(Output(Requires("Pipeline")), f)

\* Task.complete(): the output target exists.
Complete(t, f) == IF t = "Pipeline" THEN WrapperComplete(f) ELSE Exists(Output(t), f)

\* ------------------------------------------------ the dataset parameter
\* Every task class has the parameter dataset_name; a task instance is its
\* class and the value of the parameter.
DEFAULT_DATASET_NAME == "GSE68849"
DATA_DIR == "data"
Datasets == {DEFAULT_DATASET_NAME, "GSE1"}
Instance(cls, name) == [cls |-> cls, dataset_name |-> name]
NoInstance == Instance("none", "")

\* requires() passes dataset_name = self.dataset_name on.
\* Variant: the required task is built without the argument.
RequiresWithDefault(i) ==
  IF Requires(i.cls) = "none" THEN NoInstance
  ELSE Instance(Requires(i.cls), DEFAULT_DATASET_NAME)
RequiresInstance(i) ==
  IF Requires(i.cls) = "none" THEN NoInstance
  ELSE Instance(Requires(i.cls), i.dataset_name)

\* output().path: os.path.join of DATA_DIR and f"{dataset_name}_<stage>",
\* a path being the sequence of its components and a formatted name the
\* pair of the parameter and the literal after it.
RECURSIVE OutputPath(_)
OutputPath(i) ==
  CASE i.cls = "DownloadDataset" -> <<DATA_DIR, <<i.dataset_name, "_RAW.tar">>>>
    [] i.cls = "ExtractArchive" -> <<DATA_DIR, <<i.dataset_name, "_extracted">>>>
    [] i.cls = "SplitTables" -> <<DATA_DIR, <<i.dataset_name, "_split">>>>
    [] i.cls = "RemoveColumns" -> <<DATA_DIR, <<i.dataset_name, "_final">>>>
    [] i.cls = "Cleanup" -> Append(OutputPath(RequiresInstance(i)), MarkerFile)
    [] OTHER -> <<>>

\* self.input().path
InputPath(i) == OutputPath(RequiresInstance(i))

\* The task instances worker.add builds from the given one: requires() of
\* a complete task is not called.
RECURSIVE Walk(_, _)
Walk(i, f) ==
  IF Complete(i.cls, f) \/ Requires(i.cls) = "none" THEN {i}
  ELSE {i} \cup Walk(RequiresInstance(i), f)

\* ================================================================ state
VARIABLES
  fs,         \* the filesystem under DATA_DIR
  inv,        \* invocations of the pipeline started so far
  pc,         \* "idle" between invocations, "running" inside one
  status,     \* the scheduler's status of each task in this invocation
  runLog,     \* the tasks whose run was called in this invocation, in order
  failed,     \* the task whose run raised in this invocation, or "none"
  result,     \* how the last finished invocation ended
  fsStart,    \* the filesystem when this invocation started
  prev,       \* how the invocation before this one ended
  dataset,    \* the dataset_name the pipeline is invoked with
  chain,      \* the task instances built in this invocation
  txt,        \* _split_file: the lines read from the file so far
  scan,       \* _split_file: its locals dfs, write_key and fio
  sphase,     \* _split_file: "scan", "eof", "save", "done" or "raised"
  saved       \* _split_file: the files written to the output directory

pipeVars == <<fs, inv, pc, status, runLog, failed, result, fsStart, prev,
              dataset, chain>>
splitVars == <<txt, scan, sphase, saved>>
vars == <<fs, inv, pc, status, runLog, failed, result, fsStart, prev,
          dataset, chain, txt, scan, sphase, saved>>

\* Invocations of the pipeline in one behaviour.
MaxInvocations == 3

\* --------------------------------------------------- initial filesystems
\* Any of the four targets may be there before the first invocation, left
\* by an earlier run or put there by hand; notes.txt is a file the pipeline
\* did not write.
Notes == File("notes", "txt")
NotesText == << <<"notes">> >>

GoodSplit == SplitFile(FullProbes, EmptyDir).out
GoodTrimmed == << RowOf(<<"Probe_Id", "GeneSymbol">>), RowOf(<<"p1", "g1">>) >>

InitRaw == {NoRaw, RawOf(ArchGood)}
InitExtracted == {EmptyDir, ArchGood}
InitSplit == {Notes :> NotesText, GoodSplit @@ (Notes :> NotesText)}
InitFinal ==
  { EmptyDir,
    Notes :> NotesText,
    (ProbesTrimmedTsv :> GoodTrimmed) @@ (Notes :> NotesText),
    (ProbesTrimmedTsv :> GoodTrimmed) @@ (MarkerFile :> MarkerText) }

InitFS ==
  { [raw |-> r, dirs |-> ds,
     files |-> [d \in Dirs |-> IF d \in ds THEN c[d] ELSE EmptyDir]] :
      r \in InitRaw, ds \in SUBSET Dirs,
      c \in [extracted : InitExtracted, split : InitSplit, final : InitFinal] }

NoStatus == [t \in Tasks |-> "UNKNOWN"]
NoPrev == [result |-> "none", failed |-> "none"]

PipeIdle(f) ==
  /\ fs = f
  /\ inv = 0
  /\ pc = "idle"
  /\ status = NoStatus
  /\ runLog = <<>>
  /\ failed = "none"
  /\ result = "none"
  /\ fsStart = f
  /\ prev = NoPrev
  /\ chain = {}

SplitIdle ==
  /\ txt = <<>>
  /\ scan = ScanStart
  /\ sphase = "scan"
  /\ saved = EmptyDir

Init == (\E f \in InitFS : PipeIdle(f)) /\ dataset \in Datasets /\ SplitIdle

\* ====================================================== the stages' run
\* os.makedirs(path, exist_ok=True)
MkDir(f, d) == [f EXCEPT !.dirs = @ \cup {d}]

\* Create or overwrite file n of directory d.
WriteFile(f, d, n, content) == [f EXCEPT !.files[d] = (n :> content) @@ @]

\* The outcome of a run: whether it returned, and the filesystem it left.
Returned(f) == [ok |-> TRUE, fs |-> f]
Raised(f) == [ok |-> FALSE, fs |-> f]

\* Variant: the archive stored under another name than output() gives.
DownloadElsewhere(f, fetched, archive) == IF fetched THEN Returned(f) ELSE Raised(f)

\* DownloadDataset.run: wget.download(url, out=path) stores the fetched
\* archive at path, or beside it under another name when path is taken.
Download(f, fetched, archive) ==
  IF ~fetched THEN Raised(f)
  ELSE Returned(IF f.raw.exists THEN f ELSE [f EXCEPT !.raw = RawOf(archive)])

\* ExtractArchive.run: makedirs, then extractall; a damaged archive stops
\* the extraction after some members.
Extract(f, made, members) ==
  IF ~made THEN Raised(f)
  ELSE LET d == Output("ExtractArchive").dir
           g == MkDir(f, d)
           h == [g EXCEPT !.files[d] = [n \in members |-> f.raw.tar[n]] @@ @]
       IN IF f.raw.exists /\ members = DOMAIN f.raw.tar THEN Returned(h) ELSE Raised(h)

\* The orders os.listdir can give the names of S in.
Orders(S) ==
  {o \in [1..Cardinality(S) -> S] : \A i, j \in 1..Cardinality(S) : o[i] = o[j] => i = j}

RECURSIVE SplitFiles(_, _, _)
SplitFiles(order, src, out) ==
  IF order = <<>> THEN [ok |-> TRUE, out |-> out]
  ELSE LET r == SplitFile(src[Head(order)], out) IN
       IF r.ok THEN SplitFiles(Tail(order), src, r.out) ELSE r

\* SplitTables.run: makedirs, then _split_file on every .txt file of the
\* extracted directory, in listing order.
Split(f, made, order) ==
  IF ~made THEN Raised(f)
  ELSE LET d == Output("SplitTables").dir
           g == MkDir(f, d)
           r == SplitFiles(order, g.files[InputDir("SplitTables")], g.files[d])
           h == [g EXCEPT !.files[d] = r.out]
       IN IF r.ok THEN Returned(h) ELSE Raised(h)

\* df.drop(columns=COLUMNS_TO_DROP): KeyError when a label is not a column.
\* Variant: the last name of the list left out.
DropSetShort == {Name(<<COLUMNS_TO_DROP[i]>>) : i \in 1..(Len(COLUMNS_TO_DROP) - 1)}
DropSet == {Name(<<COLUMNS_TO_DROP[i]>>) : i \in 1..Len(COLUMNS_TO_DROP)}

Keep(seq, keepAt) ==
  LET F[i \in 0..Len(seq)] ==
        IF i = 0 THEN <<>>
        ELSE IF keepAt[i] THEN Append(F[i - 1], seq[i]) ELSE F[i - 1]
  IN F[Len(seq)]

\* Variant: errors='ignore', labels that are no column are passed over.
DropIgnoreMissing(df) ==
  LET keepAt == [i \in 1..Len(df.columns) |-> df.columns[i] \notin DropSet]
  IN [ok |-> TRUE,
      df |-> [columns |-> Keep(df.columns, keepAt),
              data |-> [r \in 1..Len(df.data) |-> Keep(df.data[r], keepAt)]]]
Drop(df) ==
  LET cols == {df.columns[i] : i \in 1..Len(df.columns)}
      keepAt == [i \in 1..Len(df.columns) |-> df.columns[i] \notin DropSet]
  IN IF DropSet \subseteq cols
     THEN [ok |-> TRUE,
           df |-> [columns |-> Keep(df.columns, keepAt),
                   data |-> [r \in 1..Len(df.data) |-> Keep(df.data[r], keepAt)]]]
     ELSE [ok |-> FALSE, df |-> df]

\* RemoveColumns.run: makedirs, read Probes.tsv, drop, write.
Trim(f, made) ==
  IF ~made THEN Raised(f)
  ELSE LET d == Output("RemoveColumns").dir
           g == MkDir(f, d)
           in == g.files[InputDir("RemoveColumns")]
           r == IF ProbesTsv \in DOMAIN in
                THEN ReadCsv(in[ProbesTsv], "infer")
                ELSE [ok |-> FALSE, df |-> NoTable]
           t == IF r.ok THEN Drop(r.df) ELSE r
       IN IF t.ok
          THEN Returned(WriteFile(g, d, ProbesTrimmedTsv, ToCsv(t.df)))
          ELSE Raised(g)

\* Cleanup.run: remove the .txt files of self.input().path, then write the
\* marker at self.output().path; removed is what was deleted when it ended.
\* Variant: every file listed is removed, whatever its name.
CleanEveryFile(f, removed, wrote) ==
  LET d == InputDir("Cleanup")
      g == [f EXCEPT !.files[d] = EmptyDir]
      o == Output("Cleanup")
  IN IF wrote /\ o.dir \in f.dirs
     THEN Returned(WriteFile(g, o.dir, o.name, MarkerText))
     ELSE Raised(g)
Clean(f, removed, wrote) ==
  LET d == InputDir("Cleanup")
      g == [f EXCEPT !.files[d] = [n \in (DOMAIN @) \ removed |-> @[n]]]
      o == Output("Cleanup")
  IN IF wrote /\ removed = TxtNames(f.files[d]) /\ o.dir \in f.dirs
     THEN Returned(WriteFile(g, o.dir, o.name, MarkerText))
     ELSE Raised(g)

\* ======================================================== the luigi worker
\* worker.add: walk requires() from the given task; a complete task is
\* DONE and what it requires is not looked at, any other is PENDING.
RECURSIVE Add(_, _, _)
Add(t, st, f) ==
  IF Complete(t, f) THEN [st EXCEPT ![t] = "DONE"]
  ELSE IF Requires(t) = "none" THEN [st EXCEPT ![t] = "PENDING"]
  ELSE Add(Requires(t), [st EXCEPT ![t] = "PENDING"], f)

\* luigi.build([Pipeline(dataset_name=dataset)]).
Invoke ==
  /\ pc = "idle"
  /\ inv < MaxInvocations
  /\ inv' = inv + 1
  /\ pc' = "running"
  /\ status' = Add("Pipeline", NoStatus, fs)
  /\ runLog' = <<>>
  /\ failed' = "none"
  /\ result' = "none"
  /\ fsStart' = fs
  /\ prev' = [result |-> result, failed |-> failed]
  /\ chain' = Walk(Instance("Pipeline", dataset), fs)
  /\ UNCHANGED <<fs, dataset, splitVars>>

\* The scheduler hands out a PENDING task once what it requires is DONE.
Runnable(t) ==
  /\ pc = "running"
  /\ status[t] = "PENDING"
  /\ IF Requires(t) = "none" THEN TRUE ELSE status[Requires(t)] = "DONE"

\* Before calling run the worker checks again that the required task is
\* complete; if not, the task fails and run is not called.
Fulfilled(t) == IF Requires(t) = "none" THEN TRUE ELSE Complete(Requires(t), fs)

Execute(t, outcome) ==
  /\ Runnable(t)
  /\ IF Fulfilled(t)
     THEN /\ runLog' = Append(runLog, t)
          /\ fs' = outcome.fs
          /\ status' = [status EXCEPT ![t] = IF outcome.ok THEN "DONE" ELSE "FAILED"]
          /\ failed' = IF outcome.ok THEN failed ELSE t
     ELSE /\ status' = [status EXCEPT ![t] = "FAILED"]
          /\ failed' = t
          /\ UNCHANGED <<runLog, fs>>
  /\ UNCHANGED <<inv, pc, result, fsStart, prev, dataset, chain, splitVars>>

DownloadRun ==
  \E fetched \in BOOLEAN, a \in Archives :
    Execute("DownloadDataset", Download(fs, fetched, a))

ExtractRun ==
  \E made \in BOOLEAN, members \in SUBSET DOMAIN fs.raw.tar :
    Execute("ExtractArchive", Extract(fs, made, members))

SplitRun ==
  \E made \in BOOLEAN, order \in Orders(TxtNames(fs.files[InputDir("SplitTables")])) :
    Execute("SplitTables", Split(fs, made, order))

RemoveColumnsRun ==
  \E made \in BOOLEAN : Execute("RemoveColumns", Trim(fs, made))

CleanupRun ==
  \E removed \in SUBSET TxtNames(fs.files[InputDir("Cleanup")]), wrote \in BOOLEAN :
    Execute("Cleanup", Clean(fs, removed, wrote))

\* WrapperTask.run does nothing.
PipelineRun == Execute("Pipeline", Returned(fs))

\* No task can be handed out: the worker stops and the invocation ends;
\* a failed task is not handed out again.
Finish ==
  /\ pc = "running"
  /\ \A t \in Tasks : ~Runnable(t)
  /\ pc' = "idle"
  /\ result' = IF status["Pipeline"] = "DONE" THEN "success" ELSE "failure"
  /\ UNCHANGED <<fs, inv, status, runLog, failed, fsStart, prev, dataset, chain,
                 splitVars>>

Next ==
  \/ Invoke
  \/ DownloadRun
  \/ ExtractRun
  \/ SplitRun
  \/ RemoveColumnsRun
  \/ CleanupRun
  \/ PipelineRun
  \/ Finish

Spec == Init /\ [][Next]_vars

\* ============================================ _split_file, line by line
\* for line in f: the next line of the file is read.
ReadLine ==
  /\ sphase = "scan"
  /\ Len(txt) < MaxLines
  /\ \E line \in LineAlphabet :
       /\ txt' = Append(txt, line)
       /\ scan' = ScanLine(scan, line)
       /\ sphase' = IF scan'.ok THEN "scan" ELSE "raised"
  /\ UNCHANGED <<saved, pipeVars>>

\* The file ends: the last open section is read.
ReadEof ==
  /\ sphase = "scan"
  /\ scan' = Finalize(scan)
  /\ sphase' = IF scan'.ok THEN "save" ELSE "raised"
  /\ UNCHANGED <<txt, saved, pipeVars>>

\* The tables are written to the output directory.
Save ==
  /\ sphase = "save"
  /\ saved' = SaveTables(saved, scan.dfs)
  /\ sphase' = "done"
  /\ UNCHANGED <<txt, scan, pipeVars>>

SplitInit ==
  /\ PipeIdle([raw |-> NoRaw, dirs |-> {}, files |-> [d \in Dirs |-> EmptyDir]])
  /\ dataset = DEFAULT_DATASET_NAME
  /\ SplitIdle

SplitNext == ReadLine \/ ReadEof \/ Save

SplitSpec == SplitInit /\ [][SplitNext]_vars

\* _split_file on a file that is not the first of the loop in
\* SplitTables.run: the output directory holds what an earlier file left.
EarlierFile == << Marker("A"), Row2("1", "2"), Marker("C"), Row2("x", "y") >>
PriorDirs == {EmptyDir, SplitFile(EarlierFile, EmptyDir).out}

SplitDirInit ==
  /\ PipeIdle([raw |-> NoRaw, dirs |-> {}, files |-> [d \in Dirs |-> EmptyDir]])
  /\ dataset = DEFAULT_DATASET_NAME
  /\ txt = <<>>
  /\ scan = ScanStart
  /\ sphase = "scan"
  /\ saved \in PriorDirs

SplitDirSpec == SplitDirInit /\ [][SplitNext]_vars

\* =============================================================== claims
StageSet == {Stages[i] : i \in 1..Len(Stages)}

InLog(t) == \E i \in 1..Len(runLog) : runLog[i] = t
TimesRun(t) == Cardinality({i \in 1..Len(runLog) : runLog[i] = t})

\* The stage before t in the fixed order, the wrapper coming after Cleanup.
Before(t) == Stages[Index(t) - 1]

\* The output targets as the specification lists them.
TargetExists(t, f) ==
  CASE t = "DownloadDataset" -> f.raw.exists
    [] t = "ExtractArchive" -> "extracted" \in f.dirs
    [] t = "SplitTables" -> "split" \in f.dirs
    [] t = "RemoveColumns" -> "final" \in f.dirs
    [] t = "Cleanup" -> Exists(Output("Cleanup"), f)

\* C1: the runs of one invocation happen in the order Download, Extract,
\* Split, Trim, Cleanup (then the wrapper), and a run starts only after the
\* run of the stage before it has returned, or that stage was skipped
\* because its output target existed.
C1_FixedOrder ==
  /\ \A i, j \in 1..Len(runLog) : i < j => Index(runLog[i]) < Index(runLog[j])
  /\ \A i \in 1..Len(runLog) :
       Index(runLog[i]) > 1 =>
         LET u == Before(runLog[i]) IN
         \/ (\E j \in 1..(i - 1) : runLog[j] = u) /\ status[u] = "DONE"
         \/ ~InLog(u) /\ TargetExists(u, fsStart)

C1_Witness ==
  /\ runLog = Stages \o <<"Pipeline">>
  /\ result = "success"

\* C2: a stage's run is called at most once in an invocation, and only if
\* its output target was absent when the invocation checked it; a stage
\* whose target exists is not run, whatever the target holds.
C2_RunOnceIfAbsent ==
  \A t \in StageSet :
    /\ TimesRun(t) <= 1
    /\ InLog(t) => ~TargetExists(t, fsStart)
    /\ status[t] = "DONE" /\ ~InLog(t) => TargetExists(t, fsStart)

C2_Witness ==
  /\ "split" \in fsStart.dirs
  /\ ProbesTsv \notin DOMAIN fsStart.files["split"]
  /\ status["SplitTables"] = "DONE"
  /\ InLog("RemoveColumns")
  /\ ~InLog("SplitTables")

\* The stages from t to the end of the chain had no output target when the
\* invocation started.
AbsentFrom(t) ==
  \A u \in StageSet : Index(u) >= Index(t) => ~TargetExists(u, fsStart)

\* C3 as stated: a successful invocation has run every stage whose output
\* target was absent when it started.
C3_NeverSkipsAbsent ==
  result = "success" =>
    \A t \in StageSet : ~TargetExists(t, fsStart) => InLog(t)

\* C3 amended: a successful invocation has run exactly the stages whose
\* own output target and the output targets of all stages downstream of
\* them were absent when it started; a stage upstream of an existing target
\* is not run, even if its own target is absent.
C3_RunsAbsentSuffix ==
  result = "success" =>
    \A t \in StageSet : InLog(t) <=> AbsentFrom(t)

C3_Witness ==
  /\ result = "success"
  /\ "split" \notin fsStart.dirs
  /\ "final" \in fsStart.dirs
  /\ InLog("Cleanup")
  /\ ~InLog("SplitTables")
  /\ "split" \notin fs.dirs

\* What a stage's run writes into its output target.
Produced(t, f) ==
  CASE t = "DownloadDataset" -> <<f.raw.exists, f.raw.tar>>
    [] t = "ExtractArchive" -> <<"extracted" \in f.dirs, f.files["extracted"]>>
    [] t = "SplitTables" ->
         <<"split" \in f.dirs,
           [n \in {m \in DOMAIN f.files["split"] : m[2] = "tsv"} |-> f.files["split"][n]]>>
    [] t = "RemoveColumns" ->
         <<"final" \in f.dirs,
           [n \in (DOMAIN f.files["final"]) \cap {ProbesTrimmedTsv} |-> f.files["final"][n]]>>
    [] OTHER -> <<TRUE, EmptyDir>>

\* C4: when a run fails, it is the last run of the invocation and was
\* called once, the invocation ends in failure, the failing run leaves the
\* outputs of the stages upstream of it as they were, and nothing on disk
\* changes afterwards in that invocation.
C4_FailFast ==
  /\ [](failed # "none" =>
          /\ runLog # <<>>
          /\ runLog[Len(runLog)] = failed
          /\ TimesRun(failed) = 1
          /\ status[failed] = "FAILED"
          /\ pc = "idle" => result = "failure")
  /\ [][ /\ (failed = "none" /\ failed' # "none") =>
              \A u \in StageSet :
                Index(u) < Index(failed') => Produced(u, fs') = Produced(u, fs)
         /\ (failed # "none" /\ inv' = inv) => (fs' = fs /\ runLog' = runLog)
       ]_vars

C4_Witness ==
  /\ failed = "RemoveColumns"
  /\ pc = "idle"
  /\ result = "failure"
  /\ runLog = <<"DownloadDataset", "ExtractArchive", "SplitTables", "RemoveColumns">>
  /\ ProbesTsv \in DOMAIN fs.files["split"]
  /\ status["Cleanup"] = "PENDING"

\* C5: an invocation that follows a successful one calls no run at all and
\* leaves the filesystem as it found it, and succeeds.
C5_Idempotent ==
  prev.result = "success" =>
    /\ runLog = <<>>
    /\ fs = fsStart
    /\ pc = "idle" => result = "success"

C5_Witness ==
  /\ prev.result = "success"
  /\ inv = 2
  /\ pc = "idle"
  /\ result = "success"
  /\ ProbesTrimmedTsv \in DOMAIN fs.files["final"]
  /\ "split" \in fs.dirs
  /\ Notes \notin DOMAIN fs.files["split"]

\* C6: whenever a stage's run returns, the target its output() names
\* exists.
C6_CompletionContract ==
  [][\A t \in StageSet :
       (status[t] = "PENDING" /\ status'[t] = "DONE") => Exists(Output(t), fs')]_vars

C6_Witness ==
  /\ \A t \in StageSet : InLog(t) /\ status[t] = "DONE" /\ Exists(Output(t), fs)
  /\ pc = "running"

\* The stage after t in the fixed order.
After(t) == Stages[Index(t) + 1]

\* C7: when the run of ExtractArchive, SplitTables or RemoveColumns failed
\* in the invocation before this one and left its output directory, this
\* invocation does not run that stage, and the first run it calls is the
\* one of the next stage.
C7_ResumesPastFailedStage ==
  \A s \in {"ExtractArchive", "SplitTables", "RemoveColumns"} :
    (prev.failed = s /\ TargetExists(s, fsStart)) =>
      /\ ~InLog(s)
      /\ pc = "idle" => (runLog # <<>> /\ Head(runLog) = After(s))

C7_Witness ==
  /\ prev.failed = "SplitTables"
  /\ "split" \in fsStart.dirs
  /\ ProbesTsv \notin DOMAIN fsStart.files["split"]
  /\ pc = "idle"
  /\ runLog = <<"RemoveColumns">>
  /\ failed = "RemoveColumns"

\* ------------------------------------------------- claims on _split_file
\* The file read so far, taken apart without the splitter: where its
\* marker lines are, the name between the brackets, and the lines that
\* follow a marker up to the next one.
MarkerAt == {i \in 1..Len(txt) : Head(txt[i]) = LB}
NameAt(i) == SubSeq(txt[i], 2, Len(txt[i]) - 2)
LastMarker == CHOOSE i \in MarkerAt : \A j \in MarkerAt : j <= i
SectionEnd(i) ==
  IF \E j \in MarkerAt : j > i
  THEN (CHOOSE j \in MarkerAt : j > i /\ \A k \in MarkerAt : k > i => j <= k) - 1
  ELSE Len(txt)
SectionRows(i) == [k \in 1..(SectionEnd(i) - i) |-> SplitTab(Chomp(txt[i + k]))]

\* Sections with distinct non-empty names, each followed by at least one
\* row, and nothing else.
WellFormed ==
  /\ txt # <<>>
  /\ 1 \in MarkerAt
  /\ \A i \in MarkerAt : NameAt(i) # <<>> /\ SectionEnd(i) > i
  /\ \A i, j \in MarkerAt : NameAt(i) = NameAt(j) => i = j
  /\ \A i \in 1..Len(txt) : i \notin MarkerAt => Chomp(txt[i]) # <<>>

WithHeader(rows) ==
  [columns |-> [c \in 1..Len(rows[1]) |-> Name(rows[1][c])], data |-> Tail(rows)]
Headerless(rows) ==
  [columns |-> [c \in 1..Len(rows[1]) |-> Pos(c - 1)], data |-> rows]

\* C8: on a well-formed file the splitter ends without error with exactly
\* one table per section name; a Heading section closed by a following
\* marker is read without header row, every section of another name with
\* its first line as column names; one .tsv per name is written.
C8_OneTablePerSection ==
  WellFormed =>
    /\ sphase # "raised"
    /\ sphase \in {"save", "done"} =>
         /\ DOMAIN scan.dfs = {Key(NameAt(i)) : i \in MarkerAt}
         /\ \A i \in MarkerAt :
              /\ NameAt(i) # HeadingName =>
                   scan.dfs[Key(NameAt(i))] = WithHeader(SectionRows(i))
              /\ (NameAt(i) = HeadingName /\ i # LastMarker) =>
                   scan.dfs[Key(NameAt(i))] = Headerless(SectionRows(i))
    /\ sphase = "done" =>
         DOMAIN saved = {<<NameAt(i), "tsv">> : i \in MarkerAt}

C8_Witness ==
  /\ txt = << Marker("A"), Row2("x", "y"), Marker("Heading"), Row2("1", "2"),
              Marker("B"), Row2("x", "y") >>
  /\ sphase = "done"
  /\ Cardinality(DOMAIN saved) = 3
  /\ scan.dfs[Key(HeadingName)] =
       [columns |-> <<Pos(0), Pos(1)>>, data |-> << <<<<"1">>, <<"2">>>> >>]
  /\ scan.dfs[Key(<<"A">>)] =
       [columns |-> <<Name(<<"x">>), Name(<<"y">>)>>, data |-> <<>>]

\* C9: a Heading section that is the last of the file, closed by the end
\* of the file, is read with its first line as column names.
C9_EofInfersHeader ==
  (/\ sphase \in {"save", "done"}
   /\ MarkerAt # {}
   /\ NameAt(LastMarker) = HeadingName) =>
     /\ Key(HeadingName) \in DOMAIN scan.dfs
     /\ scan.dfs[Key(HeadingName)].columns # <<>>
     /\ \A c \in DOMAIN scan.dfs[Key(HeadingName)].columns :
          scan.dfs[Key(HeadingName)].columns[c].kind = "name"
     /\ \A i \in 1..Len(txt) :
          (i > LastMarker /\ \A j \in (LastMarker + 1)..(i - 1) : Chomp(txt[j]) = <<>>)
            => (Chomp(txt[i]) = <<>>
                \/ scan.dfs[Key(HeadingName)].columns
                     = WithHeader(<<SplitTab(Chomp(txt[i]))>>).columns)

C9_Witness ==
  /\ txt = << Marker("A"), Row2("x", "y"), Marker("Heading"), Row2("x", "y"),
              Row2("1", "2") >>
  /\ sphase = "done"
  /\ scan.dfs[Key(HeadingName)] =
       [columns |-> <<Name(<<"x">>), Name(<<"y">>)>>,
        data |-> << <<<<"1">>, <<"2">>>> >>]

\* C10: a file without marker line is split without error into no table,
\* and no table is ever stored or written under an unset or empty key.
C10_NoMarkerNoTables ==
  /\ (MarkerAt = {} /\ sphase # "scan") =>
       /\ sphase \in {"save", "done"}
       /\ DOMAIN scan.dfs = {}
       /\ saved = EmptyDir
  /\ \A k \in DOMAIN scan.dfs : Truthy(k)

\* ---------------------------------------------- claims on RemoveColumns
\* The cells of the first line of a .tsv file, and the drop list as cells.
HeaderCells(content) == SplitTab(Chomp(content[1]))
DropNames == {<<COLUMNS_TO_DROP[i]>> : i \in 1..Len(COLUMNS_TO_DROP)}
NotDropped(cell) == cell \notin DropNames
CellSet(cells) == {cells[i] : i \in 1..Len(cells)}

\* RemoveColumns.run was called in this invocation, made its directory and
\* found a Probes table.
TrimmedProbes ==
  /\ InLog("RemoveColumns")
  /\ "final" \in fs.dirs
  /\ "split" \in fs.dirs
  /\ ProbesTsv \in DOMAIN fs.files["split"]

\* The trimmed table is there with the columns of the Probes table that
\* are not in the drop list, in their order.
TrimmedAsExpected ==
  /\ status["RemoveColumns"] = "DONE"
  /\ ProbesTrimmedTsv \in DOMAIN fs.files["final"]
  /\ HeaderCells(fs.files["final"][ProbesTrimmedTsv])
       = SelectSeq(HeaderCells(fs.files["split"][ProbesTsv]), NotDropped)

\* C11 as stated: whatever columns the Probes table has, the run writes
\* Probes_trimmed.tsv with the columns that are not in the drop list.
C11_TrimsAnyTable == TrimmedProbes => TrimmedAsExpected

\* C11 amended: for a Probes table that has all seven columns of the drop
\* list, the run writes Probes_trimmed.tsv with exactly the other columns,
\* in their order, and as many lines as the Probes table.
C11_TrimsFullTable ==
  (TrimmedProbes /\ DropNames \subseteq CellSet(HeaderCells(fs.files["split"][ProbesTsv]))) =>
    /\ TrimmedAsExpected
    /\ Len(fs.files["final"][ProbesTrimmedTsv]) = Len(fs.files["split"][ProbesTsv])

C11_Witness ==
  /\ TrimmedProbes
  /\ "final" \notin fsStart.dirs
  /\ status["RemoveColumns"] = "DONE"
  /\ Len(HeaderCells(fs.files["split"][ProbesTsv])) = 9
  /\ fs.files["final"][ProbesTrimmedTsv] = GoodTrimmed

\* C12: when the Probes table lacks a column of the drop list, the run
\* fails and writes no Probes_trimmed.tsv.
C12_MissingColumnFails ==
  (/\ InLog("RemoveColumns")
   /\ "split" \in fs.dirs
   /\ ProbesTsv \in DOMAIN fs.files["split"]
   /\ ~(DropNames \subseteq CellSet(HeaderCells(fs.files["split"][ProbesTsv])))) =>
     /\ status["RemoveColumns"] = "FAILED"
     /\ failed = "RemoveColumns"
     /\ ProbesTrimmedTsv \notin DOMAIN fs.files["final"]

C12_Witness ==
  /\ InLog("RemoveColumns")
  /\ "final" \in fs.dirs
  /\ ProbesTsv \in DOMAIN fs.files["split"]
  /\ HeaderCells(fs.files["split"][ProbesTsv]) =
       << <<"Probe_Id">>, <<"Definition">>, <<"Ontology_Component">>,
          <<"GeneSymbol">>, <<"Probe_Sequence">> >>
  /\ failed = "RemoveColumns"
  /\ pc = "idle"
  /\ result = "failure"


\* ---------------------------------------------------- claims on Cleanup
CleanupSucceeded == InLog("Cleanup") /\ status["Cleanup"] = "DONE"

\* C13: after Cleanup's run succeeds the completion marker exists at
\* D_split/cleanup_complete.txt, in the split directory and not in the final
\* directory.
C13_MarkerInSplit ==
  CleanupSucceeded =>
    /\ "split" \in fs.dirs
    /\ MarkerFile \in DOMAIN fs.files["split"]
    /\ MarkerFile \notin DOMAIN fs.files["final"]

\* C14: whatever D_split held before Cleanup ran, after Cleanup succeeds no
\* file of D_split has a name ending in .txt (the marker set aside).
C14_SplitHasNoTxt ==
  CleanupSucceeded => TxtNames(fs.files["split"]) \ {MarkerFile} = {}


\* ------------------------------------------- claims on the dataset name
\* The path a stage's output has for the dataset identifier D.
StagePath(cls, D) ==
  CASE cls = "DownloadDataset" -> <<"data", <<D, "_RAW.tar">>>>
    [] cls = "ExtractArchive" -> <<"data", <<D, "_extracted">>>>
    [] cls = "SplitTables" -> <<"data", <<D, "_split">>>>
    [] cls = "RemoveColumns" -> <<"data", <<D, "_final">>>>
    [] cls = "Cleanup" -> <<"data", <<D, "_final">>, File("cleanup_complete", "txt")>>
    [] OTHER -> <<>>

\* C15: in one pipeline run every task instance reached by walking
\* requires() back from Pipeline(dataset_name=D) carries dataset_name = D,
\* and the path it writes and the path it reads are those of D.
C15_SameDataset ==
  \A i \in chain :
    /\ i.dataset_name = dataset
    /\ OutputPath(i) = StagePath(i.cls, dataset)
    /\ InputPath(i) = IF i.cls = "DownloadDataset" THEN <<>>
                      ELSE StagePath(Before(i.cls), dataset)

C15_Witness ==
  /\ pc = "running"
  /\ dataset = "GSE1"
  /\ {i.cls : i \in chain} = Tasks
  /\ \E i \in chain : i.cls = "Cleanup" /\ OutputPath(i)[2] = <<"GSE1", "_final">>


\* ------------------------------------------------- claims on the buffer
\* The lines read after the last marker line.
AfterLastMarker ==
  IF MarkerAt = {} THEN <<>> ELSE SubSeq(txt, LastMarker + 1, Len(txt))
NoMarkerIn(buf) == \A k \in 1..Len(buf) : Head(buf[k]) # LB

\* C16 as stated: while a file is scanned the buffer holds exactly the
\* lines read since the last marker line, in file order, no marker line
\* among them, and nothing when no marker has been read.
C16_BufferIsSection ==
  sphase = "scan" => scan.fio = AfterLastMarker /\ NoMarkerIn(scan.fio)

\* C16 amended: the same for a section whose marker has a non-empty name;
\* after a marker with the empty name, "[]", the buffer stays empty.
C16_BufferIsNamedSection ==
  sphase \in {"scan", "save", "done"} =>
    /\ scan.fio = IF MarkerAt # {} /\ NameAt(LastMarker) = <<>> THEN <<>>
                  ELSE AfterLastMarker
    /\ NoMarkerIn(scan.fio)

C16_Witness ==
  /\ sphase = "scan"
  /\ Len(txt) = 6
  /\ MarkerAt = {2, 4}
  /\ NameAt(2) = <<"A">>
  /\ scan.fio = <<txt[5], txt[6]>>


\* ------------------------------------------ claims on the finished state
MarkerExists == \E d \in fs.dirs : MarkerFile \in DOMAIN fs.files[d]

\* C17: whenever the Cleanup completion marker exists the trimmed table
\* D_final/Probes_trimmed.tsv exists too; stated for the invocations that
\* follow one in which RemoveColumns failed.
C17_MarkerImpliesTrimmed ==
  (prev.failed = "RemoveColumns" /\ MarkerExists) =>
    "final" \in fs.dirs /\ ProbesTrimmedTsv \in DOMAIN fs.files["final"]


\* ------------------------------------------- claims on repeated sections
\* Sections with non-empty names, repeated or not, each followed by at
\* least one row, and nothing else.
Sectioned ==
  /\ txt # <<>>
  /\ 1 \in MarkerAt
  /\ \A i \in MarkerAt : NameAt(i) # <<>> /\ SectionEnd(i) > i
  /\ \A i \in 1..Len(txt) : i \notin MarkerAt => Chomp(txt[i]) # <<>>

LastOf(i) == \A j \in MarkerAt : NameAt(j) = NameAt(i) => j <= i
TableOf(i) ==
  IF NameAt(i) = HeadingName /\ i # LastMarker
  THEN Headerless(SectionRows(i))
  ELSE WithHeader(SectionRows(i))
TsvOf(i) == <<NameAt(i), "tsv">>
Repeated == \E i, j \in MarkerAt : i < j /\ NameAt(i) = NameAt(j)

\* C18: when a section name occurs more than once, in one file or in a
\* file processed earlier, the files written are one <name>.tsv per
\* distinct section name of this file, each holding the table of the last
\* occurrence; a <name>.tsv an earlier file left is overwritten, and
\* the other files of the directory stay as they are.
C18_LastOccurrenceWins ==
  [][(sphase = "save" /\ Sectioned) =>
       /\ sphase' = "done"
       /\ DOMAIN saved' = (DOMAIN saved) \cup {TsvOf(i) : i \in MarkerAt}
       /\ Cardinality((DOMAIN saved') \ ((DOMAIN saved) \ {TsvOf(i) : i \in MarkerAt}))
            = Cardinality({NameAt(i) : i \in MarkerAt})
       /\ \A i \in MarkerAt : LastOf(i) => saved'[TsvOf(i)] = ToCsv(TableOf(i))
       /\ \A n \in DOMAIN saved :
            n \notin {TsvOf(i) : i \in MarkerAt} => saved'[n] = saved[n]]_vars

C18_Witness ==
  /\ sphase = "done"
  /\ txt = << Marker("A"), Row2("x", "y"), Row2("1", "2"), Marker("A"),
              Row2("x", "y"), Row2("x", "y") >>
  /\ Repeated
  /\ DOMAIN saved = {File("A", "tsv"), File("C", "tsv")}
  /\ saved[File("A", "tsv")] = <<Row2("x", "y"), Row2("x", "y")>>


\* ------------------------------------------------ the frame of Cleanup
Kept(d, n) == n \in DOMAIN fs'.files[d] /\ fs'.files[d][n] = fs.files[d][n]
IsTxt(n) == n[2] = "txt"
IsTsv(n) == n[2] = "tsv"

\* What a run of Cleanup may do in directory d: remove files named *.txt,
\* create the marker, and nothing else.
OnlyCleans(d) ==
  /\ \A n \in DOMAIN fs.files[d] : Kept(d, n) \/ (IsTxt(n) /\ n \notin DOMAIN fs'.files[d])
  /\ \A n \in DOMAIN fs'.files[d] : n \in DOMAIN fs.files[d] \/ n = MarkerFile

============================================================================
